---- MODULE Spec2Model ----
(***************************************************************************)
(* A model of lmc.py, a Little Man Computer simulator: a 100-cell memory,  *)
(* an accumulator, a program counter, an inbox, an outbox and a running    *)
(* flag, the fetch/decode/execute cycle over them, the loader, and the     *)
(* codec between assembly lines and machine words.                         *)
(*                                                                         *)
(* Python values that cross a function boundary are records                *)
(*   [n |-> integer value, t |-> type name, s |-> characters]              *)
(* so that an int, a str, a function object and a raised exception are     *)
(* different things.  A str is a sequence of one-character strings.        *)
(* Record fields are written in the order TLC keeps them in (that of their *)
(* first mention in this module), so that a record is built normalised.    *)
(***************************************************************************)
EXTENDS Integers, Sequences, FiniteSets, TLC

VARIABLES memory, pc, accum, inbox, outbox, running,
          frame, nsteps, calls, op, ret, loaded

machine == <<memory, pc, accum, inbox, outbox, running>>
vars == <<memory, pc, accum, inbox, outbox, running,
          frame, nsteps, calls, op, ret, loaded>>

\* ------------------------------------------------------------ bounds
MaxOutbox == 2
MaxCalls == 2
MaxRunSteps == 6

\* ------------------------------------------------ program constants
MemSize == 100
MaxVal == 999
HLT == 0
ADD == 1
SUB == 2
STA == 3
LDA == 4
BRA == 5
BRZ == 6
INP == 7
OUT == 8

\* ---------------------------------------------------- Python values
PyInt(n) == [n |-> n, t |-> "int", s |-> <<>>]
PyStr(s) == [n |-> 0, t |-> "str", s |-> s]
PyNone == [n |-> 0, t |-> "None", s |-> <<>>]
PyFunction == [n |-> 0, t |-> "function", s |-> <<>>]
Raise(e) == [n |-> 0, t |-> e, s |-> <<>>]

\* ------------------------------------------------- string primitives
Digits == <<"0", "1", "2", "3", "4", "5", "6", "7", "8", "9">>

RECURSIVE strNat(_)
strNat(n) == IF n < 10 THEN <<Digits[n + 1]>>
             ELSE strNat(n \div 10) \o <<Digits[(n % 10) + 1]>>

\* str(i) of a Python int
str(i) == IF i < 0 THEN <<"-">> \o strNat(0 - i) ELSE strNat(i)

\* s.find(c): 0-based index of the first c in s, -1 when there is none
find(s, c) == IF \E i \in 1..Len(s) : s[i] = c
              THEN (CHOOSE i \in 1..Len(s) :
                      s[i] = c /\ \A j \in 1..(i - 1) : s[j] # c) - 1
              ELSE -1

\* a slice bound of Python, negative bounds counted from the end
clip(s, i) == IF i < 0 THEN (IF Len(s) + i < 0 THEN 0 ELSE Len(s) + i)
              ELSE IF i > Len(s) THEN Len(s) ELSE i

\* s[i:]
sliceFrom(s, i) == SubSeq(s, clip(s, i) + 1, Len(s))

\* s[:j]
sliceTo(s, j) == SubSeq(s, 1, clip(s, j))

RECURSIVE zeros(_)
zeros(k) == IF k <= 0 THEN <<>> ELSE <<"0">> \o zeros(k - 1)

\* s.zfill(width): zeros on the left, after a leading sign
zfill(s, width) ==
    IF Len(s) >= width THEN s
    ELSE IF Len(s) > 0 /\ s[1] \in {"+", "-"}
         THEN <<s[1]>> \o zeros(width - Len(s)) \o Tail(s)
         ELSE zeros(width - Len(s)) \o s

\* ---------------------------------------------------------- codec
list == << <<"H", "L", "T">>, <<"A", "D", "D">>, <<"S", "U", "B">>,
           <<"S", "T", "A">>, <<"L", "D", "A">>, <<"B", "R", "A">>,
           <<"B", "R", "Z">>, <<"I", "N", "P">>, <<"O", "U", "T">> >>

DAT == <<"D", "A", "T">>

\* asm in list
inList(asm) == \E i \in 1..Len(list) : list[i] = asm

\* list.index(asm), 0-based
index(asm) == (CHOOSE i \in 1..Len(list) :
                 list[i] = asm /\ \A j \in 1..(i - 1) : list[j] # asm) - 1

toML_noSentinel(asm) ==
    LET sp == find(asm, " ")
        asmMemLoc == sliceFrom(asm, sp + 1)
        mnem == sliceTo(asm, sp)
    IN  IF inList(mnem)
        THEN PyStr(str(index(mnem)) \o zfill(asmMemLoc, 2))
        ELSE PyStr(zfill(asmMemLoc, 3))

toML(asm) ==
    LET sp == find(asm, " ")
        asmMemLoc == sliceFrom(asm, sp + 1)
        mnem == sliceTo(asm, sp)
    IN  IF inList(mnem)
        THEN PyStr(str(index(mnem)) \o zfill(asmMemLoc, 2))
        ELSE IF mnem = DAT
        THEN PyStr(zfill(asmMemLoc, 3))
        ELSE PyInt(-1)

\* instr is the Python value handed in: // and % of a str by an int raise
toAssembly(instr) ==
    IF instr.t # "int" THEN Raise("TypeError")
    ELSE LET instrCode == instr.n \div 100
             memLoc == instr.n % 100
         IN  IF instrCode \in HLT..OUT
             THEN PyStr(list[instrCode + 1] \o <<" ">> \o str(memLoc))
             ELSE Raise("UnboundLocalError")

\* ------------------------------------------------------- accessors
\* Each takes the component it reads or writes and returns the new value;
\* a write also returns the exception the comparison raises, if any.
readMem(mem, addr) ==
    IF 0 <= addr /\ addr < MemSize THEN mem[addr] ELSE 0

\* the address test stops one cell short of the end
writeMem_lastCellOff(mem, addr, val) ==
    IF val.t # "int" THEN [memory |-> mem, exc |-> "TypeError"]
    ELSE IF 0 <= addr /\ addr < MemSize - 1 /\ 0 <= val.n /\ val.n <= MaxVal
    THEN [memory |-> [mem EXCEPT ![addr] = val.n], exc |-> "none"]
    ELSE [memory |-> mem, exc |-> "none"]

writeMem_noValueCheck(mem, addr, val) ==
    IF 0 <= addr /\ addr < MemSize
    THEN IF val.t # "int" THEN [memory |-> mem, exc |-> "TypeError"]
         ELSE [memory |-> [mem EXCEPT ![addr] = val.n], exc |-> "none"]
    ELSE [memory |-> mem, exc |-> "none"]

writeMem(mem, addr, val) ==
    IF 0 <= addr /\ addr < MemSize
    THEN IF val.t # "int" THEN [memory |-> mem, exc |-> "TypeError"]
         ELSE IF 0 <= val.n /\ val.n <= MaxVal
         THEN [memory |-> [mem EXCEPT ![addr] = val.n], exc |-> "none"]
         ELSE [memory |-> mem, exc |-> "none"]
    ELSE [memory |-> mem, exc |-> "none"]

writeAccum_clamps(acc, val) ==
    IF val.t # "int" THEN [accum |-> acc, exc |-> "TypeError"]
    ELSE IF val.n < 0 THEN [accum |-> 0, exc |-> "none"]
    ELSE IF val.n > MaxVal THEN [accum |-> MaxVal, exc |-> "none"]
    ELSE [accum |-> val.n, exc |-> "none"]

writeAccum(acc, val) ==
    IF val.t # "int" THEN [accum |-> acc, exc |-> "TypeError"]
    ELSE IF 0 <= val.n /\ val.n <= MaxVal
    THEN [accum |-> val.n, exc |-> "none"]
    ELSE [accum |-> acc, exc |-> "none"]

\* the bound of the docstring (0..999) instead of the bound of the code
\* the lower bound is strict
writePC_rejectsZero(p, val) == IF 0 < val /\ val < MemSize THEN val ELSE p

writePC_docstring(p, val) == IF 0 <= val /\ val <= MaxVal THEN val ELSE p

writePC(p, val) == IF 0 <= val /\ val < MemSize THEN val ELSE p

\* inbox[0] of an empty list raises IndexError; an int never equals '';
\* nothing is removed
readInbox(inb) ==
    IF Len(inb) = 0 THEN Raise("IndexError") ELSE PyInt(inb[1])

\* assigns a fresh list instead of appending
writeOutbox_replaces(outb, val) == <<val>>

writeOutbox(outb, val) == Append(outb, val)

\* --------------------------------------------- fetch/decode/execute
\* m is the machine: [memory, pc, accum, inbox, outbox, running, exc]
\* the counter wraps to 0 past the last cell
fetch_wraps(m) == [instr |-> readMem(m.memory, m.pc),
                   m |-> [m EXCEPT !.pc = (m.pc + 1) % MemSize]]

fetch_noAdvance(m) == [instr |-> readMem(m.memory, m.pc), m |-> m]

fetch(m) == [instr |-> readMem(m.memory, m.pc),
             m |-> [m EXCEPT !.pc = writePC(m.pc, m.pc + 1)]]

decode_swapped(instr) == <<instr % 100, instr \div 100>>

decode(instr) == <<instr \div 100, instr % 100>>

\* a word with no opcode of the table stops the machine
execute_haltsOnUnknown(m, opcode, operand) ==
    CASE opcode = HLT -> [m EXCEPT !.running = FALSE]
      [] opcode = OUT -> [m EXCEPT !.outbox = writeOutbox(m.outbox, m.accum)]
      [] opcode = LDA ->
           LET w == writeAccum(m.accum, PyInt(readMem(m.memory, operand)))
           IN  [m EXCEPT !.accum = w.accum, !.exc = w.exc]
      [] opcode = ADD ->
           LET w == writeAccum(m.accum,
                               PyInt(m.accum + readMem(m.memory, operand)))
           IN  [m EXCEPT !.accum = w.accum, !.exc = w.exc]
      [] opcode = SUB ->
           LET w == writeAccum(m.accum,
                               PyInt(m.accum - readMem(m.memory, operand)))
           IN  [m EXCEPT !.accum = w.accum, !.exc = w.exc]
      [] opcode = STA ->
           LET w == writeMem(m.memory, operand, PyInt(m.accum))
           IN  [m EXCEPT !.memory = w.memory, !.exc = w.exc]
      [] opcode = BRA -> [m EXCEPT !.pc = writePC(m.pc, operand)]
      [] opcode = BRZ ->
           IF m.accum = 0 THEN [m EXCEPT !.pc = writePC(m.pc, operand)]
           ELSE m
      [] opcode = INP ->
           \* writeAccum(readInbox): the function itself is the argument
           LET w == writeAccum(m.accum, PyFunction)
           IN  [m EXCEPT !.accum = w.accum, !.exc = w.exc]
      [] OTHER -> [m EXCEPT !.running = FALSE]

execute(m, opcode, operand) ==
    CASE opcode = HLT -> [m EXCEPT !.running = FALSE]
      [] opcode = OUT -> [m EXCEPT !.outbox = writeOutbox(m.outbox, m.accum)]
      [] opcode = LDA ->
           LET w == writeAccum(m.accum, PyInt(readMem(m.memory, operand)))
           IN  [m EXCEPT !.accum = w.accum, !.exc = w.exc]
      [] opcode = ADD ->
           LET w == writeAccum(m.accum,
                               PyInt(m.accum + readMem(m.memory, operand)))
           IN  [m EXCEPT !.accum = w.accum, !.exc = w.exc]
      [] opcode = SUB ->
           LET w == writeAccum(m.accum,
                               PyInt(m.accum - readMem(m.memory, operand)))
           IN  [m EXCEPT !.accum = w.accum, !.exc = w.exc]
      [] opcode = STA ->
           LET w == writeMem(m.memory, operand, PyInt(m.accum))
           IN  [m EXCEPT !.memory = w.memory, !.exc = w.exc]
      [] opcode = BRA -> [m EXCEPT !.pc = writePC(m.pc, operand)]
      [] opcode = BRZ ->
           IF m.accum = 0 THEN [m EXCEPT !.pc = writePC(m.pc, operand)]
           ELSE m
      [] opcode = INP ->
           \* writeAccum(readInbox): the function itself is the argument
           LET w == writeAccum(m.accum, PyFunction)
           IN  [m EXCEPT !.accum = w.accum, !.exc = w.exc]
      [] OTHER -> m

\* an opcode outside the table is rejected
step_rejectsUnknown(m) ==
    LET f == fetch(m)
        d == decode(f.instr)
    IN  IF d[1] > OUT THEN [f.m EXCEPT !.exc = "ValueError"]
        ELSE execute(f.m, d[1], d[2])

step(m) ==
    LET f == fetch(m)
        d == decode(f.instr)
    IN  execute(f.m, d[1], d[2])

\* ----------------------------------------------------------- loader
reset == [memory |-> [i \in 0..(MemSize - 1) |-> 0], pc |-> 0, accum |-> 0,
          inbox |-> <<>>, outbox |-> <<>>, running |-> TRUE, exc |-> "none"]

RECURSIVE loadRange(_, _, _, _)
\* the iterations i = lo .. hi-1 of the for loop of load, in order.  The
\* range is halved and the first half is evaluated before the second is
\* started (a write never resizes the list, so the test always holds), which
\* keeps the evaluation shallow for a long program.
loadRange(mem, program, lo, hi) ==
    IF lo >= hi THEN mem
    ELSE IF hi = lo + 1
    THEN writeMem(mem, lo, PyInt(program[lo + 1])).memory
    ELSE LET mid == (lo + hi) \div 2
             firstHalf == loadRange(mem, program, lo, mid)
         IN  IF DOMAIN firstHalf = DOMAIN mem
             THEN loadRange(firstHalf, program, mid, hi)
             ELSE firstHalf

\* without "global inbox" the assignment binds a local name
load_inboxLocal(program, indata) ==
    [reset EXCEPT !.memory = loadRange(reset.memory, program, 0, Len(program))]

load(program, indata) ==
    [reset EXCEPT !.memory = loadRange(reset.memory, program, 0, Len(program)),
                  !.inbox = indata]

\* ----------------------------------------------------------- inputs
AddrInputs == {-1, 5, 99, 100}
\* <<addr, val>> of writeMem: those of test_mem and the other edges
WriteMemInputs == {<<1, 5>>, <<-1, 5>>, <<1, 1000>>, <<100, 5>>,
                   <<99, 999>>, <<0, -1>>}
AccumInputs == {-1, 0, 999, 1000}
PCInputs == {-1, 0, 99, 100}
ArithA == {3, 5, 999}
ArithB == {0, 5, 996}
InboxInputs == {0, 42, 999}

\* [INP, OUT, HLT] with one input value
ScenarioA(v) == [p |-> <<700, 800, 0>>, d |-> <<v>>]

\* [LDA 5, ADD 6 or SUB 6, OUT, HLT, 0, a, b]
Arith(k, a, b) == [p |-> <<405, k * 100 + 6, 800, 0, 0, a, b>>, d |-> <<>>]

ScenarioB(a, b) == Arith(ADD, a, b)

\* [LDA 7, BRZ 6, LDA 8, BRZ 6, 0, 0, HLT, 5, 0]
ScenarioC == [p |-> <<407, 606, 408, 606, 0, 0, 0, 5, 0>>, d |-> <<>>]

\* [BRA 0]
BranchLoop == [p |-> <<500>>, d |-> <<>>]

\* [LDA 4, STA 99, STA 2, HLT, 123]
Store == [p |-> <<404, 399, 302, 0, 123>>, d |-> <<>>]

\* [BRZ 99]: the accumulator is 0 after load, cell 99 holds HLT
BranchToEnd == [p |-> <<699>>, d |-> <<>>]

\* [OUT, BRA 0]
OutLoop == [p |-> <<800, 500>>, d |-> <<7>>]

\* 101 words: a hundred words of opcode 9 and one that does not fit
Oversized == [p |-> [i \in 1..(MemSize + 1) |-> IF i <= MemSize THEN 901 ELSE 5],
              d |-> <<1, 2>>]

\* words outside 0..999
OutOfRange == [p |-> <<1000, -1, 800, 0>>, d |-> <<-5, 1000>>]

\* 100 words: [BRA 99, HLT, ..., HLT, STA 99]
StoreAtEnd == [p |-> [i \in 1..MemSize |-> IF i = 1 THEN 599
                                           ELSE IF i = MemSize THEN 399 ELSE 0],
               d |-> <<>>]

LoadInputs ==
    {ScenarioA(v) : v \in InboxInputs}
    \cup {[p |-> <<700, 800, 0>>, d |-> <<>>]}
    \cup {Arith(k, ab[1], ab[2]) : k \in {ADD, SUB}, ab \in ArithA \X ArithB}
    \cup {ScenarioC, BranchLoop, BranchToEnd, Store, OutLoop, Oversized,
          OutOfRange, StoreAtEnd}

\* --------------------------------------------------- the call record
\* loaded: the arguments of the last load, while nothing but the run() that
\* directly followed it has been called since
NoLoad == [p |-> <<>>, d |-> <<>>, ok |-> FALSE]

Cur == [memory |-> memory, pc |-> pc, accum |-> accum, inbox |-> inbox,
        outbox |-> outbox, running |-> running, exc |-> "none"]

Install(m) ==
    /\ memory' = m.memory
    /\ pc' = m.pc
    /\ accum' = m.accum
    /\ inbox' = m.inbox
    /\ outbox' = m.outbox
    /\ running' = m.running

Result(e) == IF e = "none" THEN PyNone ELSE Raise(e)

\* a call made from the prompt, outside run(): it completes in one action
\* (calls counts them since the last reset or load, up to MaxCalls)
Call(o, r) ==
    /\ frame = "idle"
    /\ calls < MaxCalls
    /\ calls' = calls + 1
    /\ frame' = "idle"
    /\ nsteps' = 0
    /\ op' = o
    /\ ret' = r

Init ==
    /\ memory = reset.memory
    /\ pc = reset.pc
    /\ accum = reset.accum
    /\ inbox = reset.inbox
    /\ outbox = reset.outbox
    /\ running = reset.running
    /\ frame = "idle"
    /\ nsteps = 0
    /\ calls = 0
    /\ op = [name |-> "import"]
    /\ ret = PyNone
    /\ loaded = NoLoad

\* ---------------------------------------------------------- actions
Reset ==
    /\ frame = "idle"
    /\ UNCHANGED frame
    /\ nsteps' = 0
    /\ calls' = 0
    /\ op' = [name |-> "reset"]
    /\ ret' = PyNone
    /\ Install(reset)
    /\ loaded' = NoLoad

Load(program, indata) ==
    /\ frame = "idle"
    /\ UNCHANGED frame
    /\ nsteps' = 0
    /\ calls' = 0
    /\ op' = [p |-> program, d |-> indata, name |-> "load"]
    /\ ret' = PyNone
    /\ Install(load(program, indata))
    /\ loaded' = [p |-> program, d |-> indata, ok |-> TRUE]

ReadMem(addr) ==
    /\ Call([addr |-> addr, name |-> "readMem"], PyInt(readMem(memory, addr)))
    /\ UNCHANGED machine
    /\ loaded' = NoLoad

WriteMem(addr, val) ==
    LET w == writeMem(memory, addr, PyInt(val))
    IN  /\ Call([addr |-> addr, val |-> val, name |-> "writeMem"], Result(w.exc))
        /\ memory' = w.memory
        /\ UNCHANGED <<pc, accum, inbox, outbox, running>>
        /\ loaded' = NoLoad

WriteAccum(val) ==
    LET w == writeAccum(accum, PyInt(val))
    IN  /\ Call([val |-> val, name |-> "writeAccum"], Result(w.exc))
        /\ accum' = w.accum
        /\ UNCHANGED <<memory, pc, inbox, outbox, running>>
        /\ loaded' = NoLoad

WritePC(val) ==
    /\ Call([val |-> val, name |-> "writePC"], PyNone)
    /\ pc' = writePC(pc, val)
    /\ UNCHANGED <<memory, accum, inbox, outbox, running>>
    /\ loaded' = NoLoad

ReadInbox ==
    /\ Call([name |-> "readInbox"], readInbox(inbox))
    /\ UNCHANGED machine
    /\ loaded' = NoLoad

\* the outbox is kept within MaxOutbox: a step about to append to a full
\* outbox is not taken
OutboxHasRoom ==
    decode(readMem(memory, pc))[1] = OUT => Len(outbox) < MaxOutbox

Step ==
    LET m == step(Cur)
    IN  /\ OutboxHasRoom
        /\ Call([name |-> "step", word |-> readMem(memory, pc)], Result(m.exc))
        /\ Install(m)
        /\ loaded' = NoLoad

\* run() is entered: control is at the test of its while loop
RunCall ==
    /\ frame = "idle"
    /\ calls < MaxCalls
    /\ calls' = calls + 1
    /\ frame' = "run"
    /\ nsteps' = 0
    /\ op' = [name |-> "run"]
    /\ ret' = PyNone
    /\ loaded' = IF op.name = "load" THEN loaded ELSE NoLoad
    /\ UNCHANGED machine

\* one iteration of the loop; an exception of step() leaves run()
RunStep ==
    LET m == step(Cur)
    IN  /\ frame = "run"
        /\ running
        /\ OutboxHasRoom
        /\ Install(m)
        /\ nsteps' = IF nsteps < MaxRunSteps THEN nsteps + 1 ELSE nsteps
        /\ IF m.exc = "none"
           THEN /\ frame' = "run"
                /\ op' = [name |-> "step", word |-> readMem(memory, pc)]
                /\ ret' = PyNone
           ELSE /\ frame' = "idle"
                /\ op' = [name |-> "run"]
                /\ ret' = Raise(m.exc)
        /\ UNCHANGED <<calls, loaded>>

\* the loop test fails: run() returns
RunReturn ==
    /\ frame = "run"
    /\ ~running
    /\ frame' = "idle"
    /\ op' = [name |-> "run"]
    /\ ret' = PyNone
    /\ UNCHANGED <<machine, nsteps, calls, loaded>>

Next ==
    \/ Reset
    \/ \E in \in LoadInputs : Load(in.p, in.d)
    \/ \E addr \in AddrInputs : ReadMem(addr)
    \/ \E in \in WriteMemInputs : WriteMem(in[1], in[2])
    \/ \E val \in AccumInputs : WriteAccum(val)
    \/ \E val \in PCInputs : WritePC(val)
    \/ ReadInbox
    \/ Step
    \/ RunCall
    \/ RunStep
    \/ RunReturn

Spec == Init /\ [][Next]_vars

\* ------------------------------------------------- codec, as called
\* Lines handed to toML: "MNEMONIC OPERAND" and "MNEMONIC" alone, for the
\* nine mnemonics, DAT, and names that are neither.
UnknownMnemonics == { <<"F", "O", "O">>, <<"H", "L">>, <<"h", "l", "t">>,
                      <<"A", "D", "D", "X">>, <<>> }
MnemonicInputs == {list[i] : i \in 1..Len(list)} \cup {DAT} \cup UnknownMnemonics
OperandInputs == {0, 1, 7, 8, 10, 56, 66, 99}
DatInputs == {0, 5, 99, 100, 123, 999}
WordInputs == {0, 8, 100, 299, 308, 456, 500, 666, 799, 899, 900, 999}

Line(mnem, n) == mnem \o <<" ">> \o str(n)

LineInputs ==
    {Line(mnem, n) : mnem \in MnemonicInputs, n \in OperandInputs}
    \cup {Line(DAT, n) : n \in DatInputs}
    \cup MnemonicInputs

CodecLoadInputs == {ScenarioA(42), Store}

\* a codec call made from the prompt: it touches no machine component
CodecCall(o, r) ==
    /\ frame = "idle"
    /\ op' = o
    /\ ret' = r
    /\ nsteps' = 0
    /\ loaded' = NoLoad
    /\ UNCHANGED <<machine, frame, calls>>

ToML(asm) == CodecCall([asm |-> asm, name |-> "toML"], toML(asm))

ToAssembly(instr) ==
    CodecCall([instr |-> instr, name |-> "toAssembly"], toAssembly(PyInt(instr)))

\* toAssembly(toML(asm))
Reassemble(asm) ==
    CodecCall([asm |-> asm, name |-> "toAssembly(toML)"], toAssembly(toML(asm)))

\* writeMem(addr, toML(asm)): the caller stores the assembled word
StoreML(addr, asm) ==
    LET w == writeMem(memory, addr, toML(asm))
    IN  /\ frame = "idle"
        /\ op' = [asm |-> asm, addr |-> addr, name |-> "writeMem(toML)"]
        /\ ret' = Result(w.exc)
        /\ memory' = w.memory
        /\ nsteps' = 0
        /\ loaded' = NoLoad
        /\ UNCHANGED <<pc, accum, inbox, outbox, running, frame, calls>>

NextCodec ==
    \/ \E asm \in LineInputs : ToML(asm)
    \/ \E instr \in WordInputs : ToAssembly(instr)
    \/ \E asm \in LineInputs : Reassemble(asm)
    \/ \E asm \in LineInputs : StoreML(5, asm)
    \/ \E in \in CodecLoadInputs : Load(in.p, in.d)
    \/ Step

SpecCodec == Init /\ [][NextCodec]_vars

\* ===================================================== the claims
Addresses == 0..(MemSize - 1)
Values == 0..MaxVal

C2_LoadPostcondition ==
    (op.name = "load" /\ \A i \in 1..Len(op.p) : op.p[i] \in Values)
        => /\ DOMAIN memory = Addresses
           /\ \A i \in Addresses :
                 memory[i] = IF i < Len(op.p) THEN op.p[i + 1] ELSE 0
           /\ accum = 0
           /\ pc = 0
           /\ outbox = <<>>
           /\ running
           /\ inbox = op.d
           /\ ret = PyNone

\* a program of 101 words was loaded, with a non-empty inbox
C2_Witness ==
    /\ op.name = "load"
    /\ Len(op.p) = MemSize + 1
    /\ memory[MemSize - 1] = op.p[MemSize]
    /\ Len(inbox) = 2

\* C3: a step executing ADD n leaves the accumulator at a+m when a+m <= 999
\* and at a otherwise; a step executing SUB n leaves it at a-m when a-m >= 0
\* and at a otherwise (a the accumulator, m the value of cell n, both in
\* [0,999]).  Memory, both queues and the running flag are unchanged.
C3_AddSubRejected ==
    [][ (op'.name = "step" /\ (memory[pc] \div 100) \in {ADD, SUB}
           /\ accum \in Values /\ memory[memory[pc] % 100] \in Values)
        => LET a == accum
               m == memory[memory[pc] % 100]
               r == IF memory[pc] \div 100 = ADD THEN a + m ELSE a - m
           IN  /\ accum' = IF r \in Values THEN r ELSE a
               /\ UNCHANGED <<memory, inbox, outbox, running>>
               /\ ret' = PyNone
      ]_vars

\* SUB on a cell holding 5 with the accumulator at 3 left the accumulator 3
C3_Witness ==
    /\ op.name = "step"
    /\ op.word = 206
    /\ memory[6] = 5
    /\ accum = 3

\* C4: Scenario A.  After load([700, 800, 0], [v]) and run(), for v in
\* [0,999], run() has returned with outbox == [v] and the machine halted.
C4_ScenarioA ==
    (/\ op.name = "run"
     /\ frame = "idle"
     /\ loaded.ok
     /\ loaded.p = <<700, 800, 0>>
     /\ Len(loaded.d) = 1
     /\ loaded.d[1] \in Values)
        => (ret = PyNone /\ outbox = loaded.d /\ ~running)

\* C5: Scenario B.  After load([405, 106, 800, 0, 0, a, b], []) and run(),
\* for a, b in [0,999] with a+b <= 999, run() has returned after exactly four
\* steps with outbox == [a+b], the machine halted and cells 0..6 as loaded.
C5_ScenarioB ==
    (/\ op.name = "run"
     /\ frame = "idle"
     /\ loaded.ok
     /\ Len(loaded.p) = 7
     /\ SubSeq(loaded.p, 1, 5) = <<405, 106, 800, 0, 0>>
     /\ loaded.p[6] \in Values
     /\ loaded.p[7] \in Values
     /\ loaded.p[6] + loaded.p[7] <= MaxVal
     /\ loaded.d = <<>>)
        => /\ ret = PyNone
           /\ nsteps = 4
           /\ outbox = <<loaded.p[6] + loaded.p[7]>>
           /\ ~running
           /\ \A i \in 0..6 : memory[i] = loaded.p[i + 1]

\* run() returned from the program adding 3 and 996
C5_Witness ==
    /\ op.name = "run"
    /\ frame = "idle"
    /\ loaded.ok
    /\ loaded.p = ScenarioB(3, 996).p
    /\ nsteps = 4
    /\ outbox = <<999>>
    /\ ~running

\* the program counter fetch leaves behind
AfterFetch(p) == IF p < MemSize - 1 THEN p + 1 ELSE p

\* a step has just taken the branch of a BRZ whose target cell holds HLT
BranchTakenToHalt ==
    /\ op.name = "step"
    /\ op.word \div 100 = BRZ
    /\ accum = 0
    /\ pc = op.word % 100
    /\ memory[pc] \div 100 = HLT

\* C6 as stated: a step executing BRZ n with a nonzero accumulator leaves the
\* program counter where fetch put it; with a zero accumulator it sets the
\* program counter to n; and when cell n holds HLT the next step halts the
\* machine with the program counter equal to n.
C6_AsStated ==
    [][ /\ (op'.name = "step" /\ memory[pc] \div 100 = BRZ /\ accum # 0)
              => pc' = AfterFetch(pc)
        /\ (op'.name = "step" /\ memory[pc] \div 100 = BRZ /\ accum = 0)
              => pc' = memory[pc] % 100
        /\ (BranchTakenToHalt /\ op'.name = "step")
              => (~running' /\ pc' = pc)
      ]_vars

\* C6, amended: as above, but the halting step fetches the HLT at n, so after
\* it the program counter is n+1 (n when n is 99).
C6_Branch ==
    [][ /\ (op'.name = "step" /\ memory[pc] \div 100 = BRZ /\ accum # 0)
              => pc' = AfterFetch(pc)
        /\ (op'.name = "step" /\ memory[pc] \div 100 = BRZ /\ accum = 0)
              => pc' = memory[pc] % 100
        /\ (BranchTakenToHalt /\ op'.name = "step")
              => (~running' /\ pc' = AfterFetch(pc))
      ]_vars

\* run() of Scenario C halted at the HLT that its second BRZ 6 branched to
C6_Witness ==
    /\ loaded.ok
    /\ loaded.p = ScenarioC.p
    /\ op.name = "run"
    /\ frame = "idle"
    /\ nsteps = 5
    /\ ~running
    /\ pc = 7

\* ------------------------------------------------ claims on the codec
\* the line "M n" of the instruction word w = k*100 + n, k in 0..8
OpLine == [w \in 0..(OUT * 100 + 99) |-> Line(list[(w \div 100) + 1], w % 100)]

\* the line "DAT n"
DatLine == [n \in Values |-> Line(DAT, n)]

\* C7 as stated: for every mnemonic M of the nine and every operand n in
\* [0,99], toAssembly(toML("M n")) returns the string "M n".
C7_RoundTrip ==
    op.name = "toAssembly(toML)"
        => \A w \in DOMAIN OpLine : op.asm = OpLine[w] => ret = PyStr(op.asm)

\* C8 as stated: toML("M n") returns the integer k*100+n for the mnemonic M
\* of opcode k and n in [0,99], toML("DAT n") returns the integer n for n in
\* [0,999], and writeMem stores the result into memory as it is.
C8_IntegerWord ==
    /\ op.name = "toML"
          => /\ \A w \in DOMAIN OpLine : op.asm = OpLine[w] => ret = PyInt(w)
             /\ \A n \in Values : op.asm = DatLine[n] => ret = PyInt(n)
    /\ op.name = "writeMem(toML)"
          => /\ \A w \in DOMAIN OpLine :
                   op.asm = OpLine[w] => (ret = PyNone /\ memory[op.addr] = w)
             /\ \A n \in Values :
                   op.asm = DatLine[n] => (ret = PyNone /\ memory[op.addr] = n)

\* lines "X n" whose mnemonic X is none of the nine nor DAT
UnknownLines == {Line(x, n) : x \in UnknownMnemonics, n \in OperandInputs}

\* what toML returns for the valid lines
ValidResults == {toML(OpLine[w]) : w \in DOMAIN OpLine}
                \cup {toML(DatLine[n]) : n \in Values}

\* C9: for a line "X n" whose mnemonic is not recognized, toML returns the
\* sentinel -1, which no valid line yields, and leaves the machine as it was.
C9_UnknownMnemonic ==
    [][ (op'.name = "toML" /\ op'.asm \in UnknownLines)
        => /\ ret' = PyInt(-1)
           /\ ret' \notin ValidResults
           /\ UNCHANGED machine
      ]_vars

\* toML("FOO 1") returned -1 on a machine holding a program
C9_Witness ==
    /\ op.name = "toML"
    /\ op.asm = <<"F", "O", "O", " ", "1">>
    /\ ret = PyInt(-1)
    /\ memory[0] = 700

\* C10 as stated: for the mnemonic M of opcode k, toML("M"), the line without
\* a space or an operand, yields k*100 and not the unrecognized-mnemonic
\* failure.
C10_OperandDefault ==
    op.name = "toML"
        => \A k \in HLT..OUT :
              op.asm = list[k + 1] => (ret = PyInt(k * 100) /\ ret # PyInt(-1))

\* ------------------------------------------- claims on the engine
Opcode(word) == word \div 100
Operand(word) == word % 100

\* C11 as stated: readInbox on a non-empty inbox returns the front element
\* and removes exactly that element, and on an empty inbox returns 0, removes
\* nothing and raises nothing; a step executing INP loads the accumulator the
\* same way, so successive INP steps consume the inbox front to back.
C11_InboxConsumed ==
    [][ /\ op'.name = "readInbox"
              => IF inbox # <<>>
                 THEN ret' = PyInt(Head(inbox)) /\ inbox' = Tail(inbox)
                 ELSE ret' = PyInt(0) /\ inbox' = inbox
        /\ (op'.name = "step" /\ Opcode(memory[pc]) = INP)
              => /\ ret' = PyNone
                 /\ IF inbox # <<>>
                    THEN /\ Head(inbox) \in Values => accum' = Head(inbox)
                         /\ inbox' = Tail(inbox)
                    ELSE accum' = 0 /\ inbox' = inbox
      ]_vars

\* memory, accumulator and program counter are within their ranges
ValidState ==
    /\ DOMAIN memory = Addresses
    /\ \A i \in Addresses : memory[i] \in Values
    /\ accum \in Values
    /\ pc \in Addresses

\* C12 as stated: from a state with memory, accumulator and program counter
\* in range and integers (or nothing) in the inbox, step() raises no
\* exception, whatever word is at the program counter.
C12_StepNeverRaises ==
    [][ (ValidState /\ op'.name = "step") => ret' = PyNone ]_vars

\* C13: running goes from TRUE to FALSE only in a step whose word has opcode
\* 0; a step whose word has opcode 1..9 leaves running as it was; and running
\* goes from FALSE to TRUE only in reset or load.
C13_HaltOnlyByHLT ==
    [][ /\ (running /\ ~running')
              => (op'.name = "step" /\ Opcode(memory[pc]) = HLT)
        /\ (op'.name = "step" /\ Opcode(memory[pc]) \in 1..9)
              => running' = running
        /\ (~running /\ running') => op'.name \in {"reset", "load"}
      ]_vars

\* a halted machine was stepped through ADD 23 and stayed halted
C13_Witness ==
    /\ op.name = "step"
    /\ op.word = 123
    /\ ~running
    /\ pc = 5

\* C14 as stated: on a halted machine step() changes no component.
C14_HaltedStepNoOp ==
    [][ (~running /\ op'.name = "step") => UNCHANGED machine ]_vars

IsPrefix(s, t) == Len(s) <= Len(t) /\ SubSeq(t, 1, Len(s)) = s

\* C16: unless the call is reset or load, the outbox before a transition is
\* a prefix of the outbox after it; a step executing OUT appends exactly the
\* accumulator of that moment, and a step executing any other opcode leaves
\* the outbox as it was.
C16_OutboxGrows ==
    [][ /\ op'.name \notin {"reset", "load"} => IsPrefix(outbox, outbox')
        /\ (op'.name = "step" /\ Opcode(memory[pc]) = OUT)
              => outbox' = Append(outbox, accum)
        /\ (op'.name = "step" /\ Opcode(memory[pc]) # OUT)
              => outbox' = outbox
      ]_vars

\* the second OUT of the loop appended to a non-empty outbox
C16_Witness ==
    /\ op.name = "step"
    /\ op.word = 800
    /\ Len(outbox) = 2
    /\ outbox[2] = accum

\* C17: a step changes memory only when its word is STA n, and then only
\* cell n, which becomes the accumulator (the store is never dropped); a step
\* executing any other opcode, or one that raises inside run(), leaves every
\* cell as it was.
C17_MemoryFrame ==
    [][ /\ (op'.name = "step" /\ Opcode(memory[pc]) = STA)
              => memory' = [memory EXCEPT ![Operand(memory[pc])] = accum]
        /\ (op'.name = "step" /\ Opcode(memory[pc]) # STA)
              => memory' = memory
        /\ op'.name = "run" => memory' = memory
      ]_vars

\* STA 99 stored the accumulator into the last cell
C17_Witness ==
    /\ op.name = "step"
    /\ op.word = 399
    /\ accum = 123
    /\ memory[99] = 123

LastCell == MemSize - 1

\* the word neither halts nor, with accumulator acc, takes a branch
NoHaltNoBranch(word, acc) ==
    /\ Opcode(word) \notin {HLT, BRA}
    /\ ~(Opcode(word) = BRZ /\ acc = 0)

\* a step that takes no branch leaves the program counter one past the
\* fetched cell, or on the last cell when that is the one fetched
FetchAdvance ==
    (Opcode(memory[pc]) # BRA /\ ~(Opcode(memory[pc]) = BRZ /\ accum = 0))
        => pc' = AfterFetch(pc)

C19_UnknownOpcode ==
    [][ (op'.name = "step" /\ Opcode(memory[pc]) = 9)
          => /\ UNCHANGED <<memory, accum, inbox, outbox, running>>
             /\ pc' = AfterFetch(pc)
             /\ ret' = PyNone
      ]_vars

\* the word 901 of cell 0 was stepped over
C19_Witness ==
    /\ op.name = "step"
    /\ op.word = 901
    /\ pc = 1
    /\ ret = PyNone
    /\ running

\* run() has returned (it has not raised)
RunReturned == op.name = "run" /\ frame = "idle" /\ ret = PyNone

\* C20: run() returns only with running FALSE; as long as nothing but run()
\* was called since load([500], []), running is TRUE and run() has not
\* returned.
C20_RunReturnsHalted ==
    /\ RunReturned => ~running
    /\ (loaded.ok /\ loaded.p = BranchLoop.p) => (running /\ ~RunReturned)

\* run() of [BRA 0] has gone round the loop MaxRunSteps times
C20_Witness ==
    /\ loaded.ok
    /\ loaded.p = BranchLoop.p
    /\ frame = "run"
    /\ nsteps = MaxRunSteps
    /\ op.word = 500
    /\ pc = 0

====
